---- MODULE Spec2Model ----
(***************************************************************************)
(* Model of bot.py, the ChatWars log bot: the handler of forwarded game     *)
(* messages (forwarded), the route merge (store_route), the location       *)
(* prompt (ask_location) and the handler of the location buttons (button), *)
(* over the two stores the handlers keep (context.bot_data and             *)
(* context.user_data).                                                     *)
(*                                                                         *)
(* A message text is a sequence of tokens.  A token [k, v] stands for a    *)
(* piece of the text: k is its kind and v its characters or words.  The    *)
(* regular expressions and the substring tests of the source are computed  *)
(* over the tokens.                                                        *)
(***************************************************************************)
EXTENDS Integers, Sequences, FiniteSets, TLC

VARIABLES bot_data, user_data, prompts, reply, update_id

vars == <<bot_data, user_data, prompts, reply, update_id>>

(***************************************************************************)
(* Bounds of the model.                                                    *)
(***************************************************************************)
\* forward dates are numbered 0..MaxDate
MaxDate == 2
\* number of updates the dispatcher handles in one run
MaxUpdates == 4

(***************************************************************************)
(* Python dictionaries: functions with a finite domain.                    *)
(***************************************************************************)
EmptyDict == [x \in {} |-> x]

Get(d, key, default) == IF key \in DOMAIN d THEN d[key] ELSE default

Put(d, key, value) == [x \in (DOMAIN d) \cup {key} |-> IF x = key THEN value ELSE d[x]]

\* None, and the groups of a match that did not take part
None == <<>>

(***************************************************************************)
(* Tokens of a message text.                                               *)
(***************************************************************************)
Tok(kind, chars) == [k |-> kind, v |-> chars]

\* 'You found hidden '
FoundHidden == Tok("found", <<"You found hidden">>)
\* 'You noticed that objective is captured by alliance.\n'
Captured == Tok("occupied", <<"You noticed that objective is captured by alliance.">>)
\* 'You noticed a <.+> of defender near it.\n'
Defender(what) == Tok("defended", <<"You noticed a", what, "of defender near it.">>)
\* 'То remember the route you associated it with simple combination:'
RoutePhrase == Tok("phrase", <<"To remember the route you associated it with simple combination:">>)
\* 'You received:'
Received == Tok("received", <<"You received:">>)
\* 'Being a naturally born pathfinder, you found a secret passage and saved some energy +1'
Pathfinder == Tok("pathfinder", <<"Being a naturally born pathfinder">>)
\* 'Earned: <item>(<count>)'
Earned(item, n) == Tok("earned", <<item, n>>)
\* a newline
NL == Tok("nl", <<>>)
\* a run of word characters (\w+)
Word(w) == Tok("word", <<w>>)
\* any other run of characters without a newline
Chars(s) == Tok("chars", <<s>>)
\* one of the characters of the class [(...)] of castle symbols
Castle(c) == Tok("castle", <<c>>)
\* '[' characters ']'
Bracketed(cs) == Tok("bracketed", cs)

Has(text, kind) == \E i \in 1..Len(text) : text[i].k = kind

(***************************************************************************)
(* Forward dates.  str(datetime) is the fixed-width text of the date, kept  *)
(* here as its digits (day, then hour); Python compares such strings       *)
(* character by character.                                                 *)
(***************************************************************************)
DateOf(n) == [day |-> 1 + (n \div 24), hour |-> n % 24]

ForwardDates == {DateOf(9 * n) : n \in 0..MaxDate}

str(datetime) ==
    <<datetime.day \div 10, datetime.day % 10, datetime.hour \div 10, datetime.hour % 10>>

\* a < b for two Python strings of digits
RECURSIVE StrLess(_, _)
StrLess(a, b) ==
    IF b = <<>> THEN FALSE
    ELSE IF a = <<>> THEN TRUE
    ELSE IF Head(a) # Head(b) THEN Head(a) < Head(b)
    ELSE StrLess(Tail(a), Tail(b))

\* max() of a non-empty set of strings
max(strings) == CHOOSE m \in strings : \A s \in strings : ~StrLess(m, s)

game_time_lookup ==
    <<           "morning", "day", "day", "evening", "evening", "night", "night",
      "morning", "morning", "day", "day", "evening", "evening", "night", "night",
      "morning", "morning", "day", "day", "evening", "evening", "night", "night",
      "morning">>

\* the hour taken as a position counted from 1
game_time_FromOne(datetime) == game_time_lookup[IF datetime.hour = 0 THEN 24 ELSE datetime.hour]

game_time(datetime) == game_time_lookup[datetime.hour + 1]

(***************************************************************************)
(* The regular expressions.                                                *)
(***************************************************************************)
\* the characters of [A-Z\d]
UpperOrDigit ==
    {"A", "B", "C", "D", "E", "F", "G", "H", "I", "J", "K", "L", "M", "N", "O", "P", "Q",
     "R", "S", "T", "U", "V", "W", "X", "Y", "Z",
     "0", "1", "2", "3", "4", "5", "6", "7", "8", "9"}

\* castle [ guild{2,3} ] name, matched at token i
GuildAt(text, i) ==
    /\ i + 2 <= Len(text)
    /\ text[i].k = "castle"
    /\ text[i + 1].k = "bracketed"
    /\ Len(text[i + 1].v) \in 2..3
    /\ \A j \in 1..Len(text[i + 1].v) : text[i + 1].v[j] \in UpperOrDigit
    /\ text[i + 2].k = "word"

\* the least of a non-empty set of positions: re.search returns the leftmost match
Leftmost(positions) == CHOOSE m \in positions : \A j \in positions : m <= j

\* guild_match: re.search of the guild pattern finds a match
guild_search(text) == \E i \in 1..Len(text) : GuildAt(text, i)

\* the groupdict of the guild match at token i
GuildGroups(text, i) == [castle |-> text[i].v, guild |-> text[i + 1].v, name |-> text[i + 2].v]

\* guild(guild_match): the groupdict of the leftmost match
guild(text) == GuildGroups(text, Leftmost({i \in 1..Len(text) : GuildAt(text, i)}))

\* the index of the first newline at or after token i, 0 when there is none
RECURSIVE NextNL(_, _)
NextNL(text, i) ==
    IF i > Len(text) THEN 0
    ELSE IF text[i].k = "nl" THEN i
    ELSE NextNL(text, i + 1)

Kind(text, i) == IF i \in 1..Len(text) THEN text[i].k ELSE "end"

\* the token after the optional part of the given kind that may stand at token i
Skip(text, i, kind) == IF Kind(text, i) = kind THEN i + 1 ELSE i

\* where the parts of the route pattern lie when it is tried from token i: the
\* newline that ends the name, and the token of the route phrase
AllianceParts(text, i, nl) ==
    [nl |-> nl, ph |-> Skip(text, Skip(text, nl + 1, "occupied"), "defended")]

\* the route pattern matches from token i, with its parts at
AllianceFits(text, i, at) ==
    /\ Kind(text, i) = "found"
    /\ Kind(text, i + 1) = "word"
    /\ at.nl > i + 2
    /\ Kind(text, at.ph) = "phrase"
    /\ Kind(text, at.ph + 1) = "word"

\* the route pattern matches from token i
AllianceAt(text, i) == AllianceFits(text, i, AllianceParts(text, i, NextNL(text, i + 2)))

\* alliance_match: re.search of the route pattern finds a match
alliance_search(text) == \E i \in 1..Len(text) : AllianceAt(text, i)

\* the groupdict of the match from token i; a group that took no part is None
AllianceGroups(text, i, at) ==
    [name     |-> SubSeq(text, i + 2, at.nl - 1),
     occupied |-> IF Kind(text, at.nl + 1) = "occupied" THEN <<text[at.nl + 1]>> ELSE None,
     defended |-> IF Kind(text, at.ph - 1) = "defended" THEN <<text[at.ph - 1]>> ELSE None,
     code     |-> text[at.ph + 1].v]

AllianceFrom(text, i) == AllianceGroups(text, i, AllianceParts(text, i, NextNL(text, i + 2)))

\* alliance(text): the groupdict of the leftmost match.  Without a match the call
\* raises (None has no groupdict).
alliance(text) == AllianceFrom(text, Leftmost({i \in 1..Len(text) : AllianceAt(text, i)}))

\* text.replace(pathfinder_text, '')
RemovePathfinder(text) == SelectSeq(text, LAMBDA tk : tk.k # "pathfinder")

\* text.partition('You received:')[0]
RECURSIVE BeforeReceived(_)
BeforeReceived(text) ==
    IF text = <<>> \/ Head(text).k = "received" THEN <<>>
    ELSE <<Head(text)>> \o BeforeReceived(Tail(text))

\* text.strip()
RECURSIVE strip(_)
strip(text) ==
    IF text = <<>> THEN <<>>
    ELSE IF Head(text).k = "nl" THEN strip(Tail(text))
    ELSE IF text[Len(text)].k = "nl" THEN strip(SubSeq(text, 1, Len(text) - 1))
    ELSE text

RECURSIVE Loot(_)
Loot(text) ==
    IF text = <<>> THEN <<>>
    ELSE IF Head(text).k = "earned"
         THEN <<[item |-> Head(text).v[1], count |-> Head(text).v[2]]>> \o Loot(Tail(text))
         ELSE Loot(Tail(text))

quest(text) ==
    [pathfinder  |-> Has(text, "pathfinder"),
     flavor_text |-> strip(BeforeReceived(RemovePathfinder(text))),
     loot        |-> Loot(text)]

(***************************************************************************)
(* The messages the model forwards to the bot.                             *)
(***************************************************************************)
Users == {"u1", "u2"}

ChatTypes == {"private", "group"}

IdentityText == <<Castle("wolf"), Bracketed(<<"A", "B">>), Word("Bob")>>

\* a guild tag of four characters: no identity match
LongTagText == <<Castle("wolf"), Bracketed(<<"A", "B", "C", "D">>), Word("Bob")>>

RouteText1 ==
    <<FoundHidden, Word("passage"), Chars("Old Mill"), NL, Captured, RoutePhrase, Word("AB12")>>

RouteText2 ==
    <<FoundHidden, Word("passage"), Chars("Old Mill"), NL, Defender("horde"), RoutePhrase,
      Word("AB12")>>

RouteText3 == <<FoundHidden, Word("ruin"), Chars("Ruins"), NL, RoutePhrase, Word("CD34")>>

\* the route phrase without the code after it
MalformedRouteText == <<Chars("Old Mill"), NL, RoutePhrase>>

\* an identity line and a whole route report in one text
IdentityRouteText ==
    <<Castle("dragon"), Bracketed(<<"X", "Y", "9">>), Word("Eve"), NL>> \o RouteText1

QuestText1 == <<Chars("forest clearing"), NL, Received, NL, Earned("Wood", "5")>>

QuestText2 == <<Chars("forest clearing"), NL, Pathfinder>>

QuestText3 == <<Chars("swamp"), NL, Received>>

\* a flavor text alone
FlavorText1 == <<Chars("forest clearing")>>

UnknownText == <<Chars("hello")>>

RouteTexts ==
    {RouteText1, RouteText2, RouteText3, MalformedRouteText, IdentityRouteText, IdentityText,
     LongTagText}

QuestTexts == {QuestText1, QuestText2, QuestText3, FlavorText1}

\* callback_data of the three buttons: strings of one character each
ButtonData == {<<"tree">>, <<"mushroom">>, <<"mountain">>}

(***************************************************************************)
(* State.                                                                  *)
(***************************************************************************)
NoReply == [kind |-> "none"]

\* the reply of the error handler to the message whose handling raised
ErrorReply == [kind |-> "error"]

Init ==
    /\ bot_data = EmptyDict
    /\ user_data = [u \in Users |-> EmptyDict]
    /\ prompts = {}
    /\ reply = NoReply
    /\ update_id = 0

(***************************************************************************)
(* store_route                                                             *)
(***************************************************************************)
\* the date is not recorded
add_Forgets(times_seen, exact_time) == times_seen

\* times_seen.add(str(exact_time))
add(times_seen, exact_time) == times_seen \cup {str(exact_time)}

\* len(times_seen)
len(times_seen) == Cardinality(times_seen)

\* a counter of messages: one more for every message merged
CountOf_Counter(route) == IF "count" \in DOMAIN route THEN route.count + 1 ELSE 1

\* the count of a stored route
CountOf(route) == len(route.times_seen)

\* first seen wins: the stored route is kept whenever there is one
Retained_FirstSeenWins(routes, decode, times_seen, exact_time) ==
    IF decode.code \in DOMAIN routes THEN routes[decode.code] ELSE decode

\* always overwrite: the fields of the message are adopted whatever its date
Retained_AlwaysOverwrite(routes, decode, times_seen, exact_time) == decode

\* if str(exact_time) < max(times_seen): decode = routes.get(decode['code'], {})
Retained(routes, decode, times_seen, exact_time) ==
    IF StrLess(str(exact_time), max(times_seen))
    THEN Get(routes, decode.code, EmptyDict)
    ELSE decode

\* decode['times_seen'] = times_seen; decode['count'] = len(times_seen)
Counted(route) == Put(route, "count", CountOf(route))

\* routes[decode['code']] = decode
PutRoute(routes, route) == Put(routes, route.code, route)

\* the observation replaces the route: the times seen before are dropped
Merged_Replaces(routes, decode, times_seen, exact_time) ==
    PutRoute(routes, Counted(Put(decode, "times_seen", {str(exact_time)})))

Merged(routes, decode, times_seen, exact_time) ==
    PutRoute(routes,
             Counted(Put(Retained(routes, decode, times_seen, exact_time),
                         "times_seen", times_seen)))

\* the value of routes after store_route has merged the groups decode
StoredRoutes(routes, decode, exact_time) ==
    Merged(routes, decode,
           add(Get(Get(routes, decode.code, EmptyDict), "times_seen", {}), exact_time),
           exact_time)

RouteReply(route) == [kind |-> "route", name |-> route.name, count |-> route.count]

\* the routes are set up in bot_data before the text is decoded
Raised_SetDefault(data) == Put(data, "routes", Get(data, "routes", EmptyDict))

\* bot_data as a raise of alliance() leaves it: nothing has been assigned yet
Raised(data) == data

\* context.bot_data['routes'] = routes, and the reply
SaveRoutes(routes, code) ==
    /\ bot_data' = Put(bot_data, "routes", routes)
    /\ reply' = RouteReply(routes[code])
    /\ UNCHANGED <<user_data, prompts>>

MergeRoute(decode, exact_time) ==
    SaveRoutes(StoredRoutes(Get(bot_data, "routes", EmptyDict), decode, exact_time),
               decode.code)

store_route(text, exact_time) ==
    IF ~alliance_search(text)
    THEN /\ reply' = ErrorReply
         /\ bot_data' = Raised(bot_data)
         /\ UNCHANGED <<user_data, prompts>>
    ELSE MergeRoute(alliance(text), exact_time)

(***************************************************************************)
(* ask_location                                                            *)
(***************************************************************************)
\* stats = flavors.get(flavor_text, ''), and stats[0] when there are any
Stats(flavors, flavor_text) ==
    IF flavor_text \in DOMAIN flavors THEN <<flavors[flavor_text][1]>> ELSE <<>>

\* the record of the flavor text is set up when the prompt is sent
ask_location_Creates(user, text, exact_time) ==
    /\ reply' = [kind  |-> "prompt",
                 stats |-> Stats(Get(user_data[user], "flavors", EmptyDict),
                                 quest(text).flavor_text)]
    /\ prompts' = prompts \cup
           {[user |-> user,
             reply_to_message |-> <<[text |-> text, forward_date |-> exact_time]>>]}
    /\ user_data' = [user_data EXCEPT
           ![user] = Put(@, "flavors",
                         Put(Get(@, "flavors", EmptyDict), quest(text).flavor_text,
                             Get(Get(@, "flavors", EmptyDict), quest(text).flavor_text,
                                 <<EmptyDict, {}>>)))]
    /\ UNCHANGED bot_data

ask_location(user, text, exact_time) ==
    /\ reply' = [kind  |-> "prompt",
                 stats |-> Stats(Get(user_data[user], "flavors", EmptyDict),
                                 quest(text).flavor_text)]
    /\ prompts' = prompts \cup
           {[user |-> user,
             reply_to_message |-> <<[text |-> text, forward_date |-> exact_time]>>]}
    /\ UNCHANGED <<bot_data, user_data>>

(***************************************************************************)
(* forwarded                                                               *)
(***************************************************************************)
\* the route phrase is tested before the identity pattern
Branch_RouteFirst(text, chat_type, data) ==
    IF Has(text, "phrase") THEN "store_route"
    ELSE IF guild_search(text) /\ chat_type = "private" THEN "identity"
    ELSE IF /\ \/ Has(text, "received")
               \/ Has(text, "pathfinder")
               \/ text \in DOMAIN Get(data, "flavors", EmptyDict)
            /\ chat_type = "private" THEN "ask_location"
    ELSE IF chat_type = "private" THEN "unknown"
    ELSE "pass"

\* the last elif does not test the chat type
Branch_UnknownAnywhere(text, chat_type, data) ==
    IF guild_search(text) /\ chat_type = "private" THEN "identity"
    ELSE IF Has(text, "phrase") THEN "store_route"
    ELSE IF /\ \/ Has(text, "received")
               \/ Has(text, "pathfinder")
               \/ text \in DOMAIN Get(data, "flavors", EmptyDict)
            /\ chat_type = "private" THEN "ask_location"
    ELSE "unknown"

\* routes are taken in private chats alone
Branch_RoutePrivate(text, chat_type, data) ==
    IF guild_search(text) /\ chat_type = "private" THEN "identity"
    ELSE IF Has(text, "phrase") /\ chat_type = "private" THEN "store_route"
    ELSE IF /\ \/ Has(text, "received")
               \/ Has(text, "pathfinder")
               \/ text \in DOMAIN Get(data, "flavors", EmptyDict)
            /\ chat_type = "private" THEN "ask_location"
    ELSE IF chat_type = "private" THEN "unknown"
    ELSE "pass"

\* every message that is not a quest message takes the branch of quest messages
Branch_PromptsAnything(text, chat_type, data) ==
    IF guild_search(text) /\ chat_type = "private" THEN "identity"
    ELSE IF Has(text, "phrase") THEN "store_route"
    ELSE IF chat_type = "private" THEN "ask_location"
    ELSE "pass"

\* the branch of the if/elif chain that handles the message
Branch(text, chat_type, data) ==
    IF guild_search(text) /\ chat_type = "private" THEN "identity"
    ELSE IF Has(text, "phrase") THEN "store_route"
    ELSE IF /\ \/ Has(text, "received")
               \/ Has(text, "pathfinder")
               \/ text \in DOMAIN Get(data, "flavors", EmptyDict)
            /\ chat_type = "private" THEN "ask_location"
    ELSE IF chat_type = "private" THEN "unknown"
    ELSE "pass"

\* context.user_data['name'] = user, and the greeting
Identify(user, name) ==
    /\ user_data' = [user_data EXCEPT ![user] = Put(@, "name", name)]
    /\ reply' = [kind |-> "hello", user |-> name]
    /\ UNCHANGED <<bot_data, prompts>>

Handle(branch, user, text, exact_time) ==
    CASE branch = "identity" -> Identify(user, guild(text))
      [] branch = "store_route" -> store_route(text, exact_time)
      [] branch = "ask_location" -> ask_location(user, text, exact_time)
      [] branch = "unknown" ->
           /\ user_data' = [user_data EXCEPT ![user] = Put(@, "text_info", "unknown")]
           /\ reply' = [kind |-> "unknown", time |-> game_time(exact_time),
                        exact_time |-> exact_time]
           /\ UNCHANGED <<bot_data, prompts>>
      [] branch = "pass" ->
           /\ reply' = NoReply
           /\ UNCHANGED <<bot_data, user_data, prompts>>

forwarded(user, chat_type, text, exact_time) ==
    /\ update_id < MaxUpdates
    /\ update_id' = update_id + 1
    /\ Handle(Branch(text, chat_type, bot_data), user, text, exact_time)

(***************************************************************************)
(* button                                                                  *)
(***************************************************************************)
\* Counter.update(iterable): one more for each element of the iterable
RECURSIVE CounterUpdate(_, _)
CounterUpdate(count, iterable) ==
    IF iterable = <<>> THEN count
    ELSE CounterUpdate(Put(count, Head(iterable), Get(count, Head(iterable), 0) + 1),
                       Tail(iterable))

\* no test of the date: every press counts
Unseen_Always(times, exact_time) == TRUE

\* if str(exact_time) not in times
Unseen(times, exact_time) == str(exact_time) \notin times

\* query.edit_message_text: the counter is shown
Edit(message, query_data, count) ==
    reply' = [kind |-> "edit", time |-> game_time(message.forward_date),
              data |-> query_data, quest |-> quest(message.text), count |-> count]

\* the flavors are kept in one place for every user
SaveFlavors_Shared(user, flavors, flavor_text, count, times) ==
    user_data' = [u \in Users |->
                     Put(user_data[u], "flavors", Put(flavors, flavor_text, <<count, times>>))]

\* flavors[data['flavor_text']] = count, times; context.user_data['flavors'] = flavors
SaveFlavors(user, flavors, flavor_text, count, times) ==
    user_data' = [user_data EXCEPT
                     ![user] = Put(@, "flavors", Put(flavors, flavor_text, <<count, times>>))]

\* the press, with the record stored of the flavor text
Pressed(user, message, query_data, flavors, flavor_text, stored) ==
    IF Unseen(stored[2], message.forward_date)
    THEN /\ SaveFlavors(user, flavors, flavor_text, CounterUpdate(stored[1], query_data),
                        add(stored[2], message.forward_date))
         /\ Edit(message, query_data, CounterUpdate(stored[1], query_data))
    ELSE /\ user_data' = user_data
         /\ Edit(message, query_data, stored[1])

Resolve(user, message, query_data, flavors, flavor_text) ==
    Pressed(user, message, query_data, flavors, flavor_text,
            Get(flavors, flavor_text, <<EmptyDict, {}>>))

button(prompt, query_data) ==
    /\ update_id < MaxUpdates
    /\ update_id' = update_id + 1
    /\ IF prompt.reply_to_message = None
       THEN /\ reply' = ErrorReply
            /\ UNCHANGED <<bot_data, user_data, prompts>>
       ELSE /\ Resolve(prompt.user, prompt.reply_to_message[1], query_data,
                       Get(user_data[prompt.user], "flavors", EmptyDict),
                       quest(prompt.reply_to_message[1].text).flavor_text)
            /\ UNCHANGED <<bot_data, prompts>>

(***************************************************************************)
(* The forwarded message a prompt replies to is deleted from the chat: the *)
(* prompt no longer carries a reply_to_message.                            *)
(***************************************************************************)
source_deleted(prompt) ==
    /\ prompt.reply_to_message # None
    /\ prompts' = (prompts \ {prompt}) \cup {[user |-> prompt.user, reply_to_message |-> None]}
    /\ UNCHANGED <<bot_data, user_data, reply, update_id>>

Forward(users, texts) ==
    \E user \in users, chat_type \in ChatTypes, text \in texts, date \in ForwardDates :
        forwarded(user, chat_type, text, date)

Press == \E prompt \in prompts, query_data \in ButtonData : button(prompt, query_data)

Delete == \E prompt \in prompts : source_deleted(prompt)

\* one message of every kind, from both users
MixedTexts ==
    {IdentityRouteText, RouteText1, MalformedRouteText, QuestText1, UnknownText}

Next == Forward(Users, MixedTexts) \/ Press \/ Delete

Spec == Init /\ [][Next]_vars

\* the messages that reach store_route, and the identity message that does not
NextRoute == Forward({"u1"}, RouteTexts)

SpecRoute == Init /\ [][NextRoute]_vars

\* the quest messages and the presses of the location buttons
NextQuest == Forward({"u1"}, QuestTexts \cup {UnknownText}) \/ Press \/ Delete

SpecQuest == Init /\ [][NextQuest]_vars

\* one message of every kind in either chat type, and the presses
GroupTexts == {IdentityText, RouteText1, MalformedRouteText, QuestText1, UnknownText}

NextGroup == Forward({"u1"}, GroupTexts) \/ Press

SpecGroup == Init /\ [][NextGroup]_vars

\* in private chats: routes of two codes and quest messages of two flavor texts
\* from one user, a quest message from the other, and the presses
ForwardPrivate(users, texts) ==
    \E user \in users, text \in texts, date \in ForwardDates :
        forwarded(user, "private", text, date)

BothTexts == {RouteText1, RouteText3, QuestText1, QuestText3}

OtherTexts == {QuestText1}

NextBoth ==
    \/ ForwardPrivate({"u1"}, BothTexts)
    \/ ForwardPrivate({"u2"}, OtherTexts)
    \/ Press

SpecBoth == Init /\ [][NextBoth]_vars

\* a message of no known kind forwarded at every hour of a day: the reply names the
\* game time of the forward date
HourDates == {[day |-> 1, hour |-> h] : h \in 0..23}

NextTime ==
    \E user \in Users, date \in HourDates : forwarded(user, "private", UnknownText, date)

SpecTime == Init /\ [][NextTime]_vars

(***************************************************************************)
(* Properties.                                                             *)
(***************************************************************************)
AllTexts == RouteTexts \cup QuestTexts \cup MixedTexts \cup {UnknownText}

\* the route table
Routes == Get(bot_data, "routes", EmptyDict)

Fields(route) == [name |-> route.name, occupied |-> route.occupied, defended |-> route.defended]

\* d1 is an earlier date than d2
Earlier(d1, d2) == d1.day < d2.day \/ (d1.day = d2.day /\ d1.hour < d2.hour)

\* the forward dates seen of a route
SeenDates(routes, code) ==
    IF code \in DOMAIN routes THEN {d \in ForwardDates : str(d) \in routes[code].times_seen}
    ELSE {}

\* the texts that the route template matches, with their groups
Decodes == [text \in {t \in AllTexts : alliance_search(t)} |-> alliance(text)]

\* the step is forwarded on the message (text, date) taking the branch of
\* store_route, which merges it; a merge is answered with the summary of the route
\* and records the date among the times of the route, which are tested first
RouteMerge(text, date) ==
    /\ reply'.kind = "route"
    /\ str(date) \in Get(Get(Routes', Decodes[text].code, EmptyDict), "times_seen", {})
    /\ \E chat_type \in ChatTypes : Branch(text, chat_type, bot_data) = "store_route"
    /\ update_id' = update_id + 1
    /\ store_route(text, date)

\* C1: a route message whose secret code and forward date were merged before leaves
\* the times_seen and the count of the route as they were; after a first
\* observation the re-sent message gives count = 1, in the table and in the reply.
C1_RouteMergeIdempotent ==
    [][\A text \in DOMAIN Decodes, date \in ForwardDates :
          (/\ date \in SeenDates(Routes, Decodes[text].code)
           /\ RouteMerge(text, date))
          => LET code == Decodes[text].code
             IN  /\ Routes'[code].times_seen = Routes[code].times_seen
                 /\ Routes'[code].count = Routes[code].count
                 /\ Routes[code].times_seen = {str(date)}
                       => Routes'[code].count = 1 /\ reply'.count = 1]_vars

\* a route seen once, after two updates, the second answered with its summary
C1_Witness ==
    /\ update_id = 2
    /\ DOMAIN Routes = {<<"AB12">>}
    /\ Routes[<<"AB12">>].times_seen = {str(DateOf(9))}
    /\ Routes[<<"AB12">>].count = 1
    /\ reply = [kind |-> "route", name |-> <<Chars("Old Mill")>>, count |-> 1]
    /\ \A u \in Users : user_data[u] = EmptyDict

\* C3: after a route merge the stored name, occupied and defended are those of the
\* message when no date seen for the code is later than the date of the message
\* (the message is the latest observation), and are the stored ones otherwise; so
\* they are always those of the observation with the greatest forward date.
C3_FlagsFollowLatestTime ==
    [][\A text \in DOMAIN Decodes, date \in ForwardDates :
          RouteMerge(text, date)
          => LET code == Decodes[text].code
             IN  IF \E d \in SeenDates(Routes, code) : Earlier(date, d)
                 THEN Fields(Routes'[code]) = Fields(Routes[code])
                 ELSE Fields(Routes'[code]) = Fields(Decodes[text])]_vars

\* two observations of one code at two dates, the stored one not occupied but defended
C3_Witness ==
    /\ update_id = 2
    /\ <<"AB12">> \in DOMAIN Routes
    /\ Routes[<<"AB12">>].times_seen = {str(DateOf(0)), str(DateOf(9))}
    /\ Routes[<<"AB12">>].occupied = None
    /\ Routes[<<"AB12">>].defended = <<Defender("horde")>>
    /\ reply.kind = "route"

\* C4 as stated: a route merge whose date is lower than or equal to the greatest
\* date seen leaves name, occupied and defended as stored.
C4_LowerOrEqualRetains ==
    [][\A text \in DOMAIN Decodes, date \in ForwardDates :
          (/\ \E d \in SeenDates(Routes, Decodes[text].code) : ~Earlier(d, date)
           /\ RouteMerge(text, date))
          => Fields(Routes'[Decodes[text].code]) = Fields(Routes[Decodes[text].code])]_vars

\* C4 amended: a route merge whose date is strictly lower than the greatest date
\* seen leaves name, occupied and defended as stored; only the times_seen of that
\* route may grow, and no other route changes.
C4_StrictlyLowerRetains ==
    [][\A text \in DOMAIN Decodes, date \in ForwardDates :
          (/\ \E d \in SeenDates(Routes, Decodes[text].code) : Earlier(date, d)
           /\ RouteMerge(text, date))
          => LET code == Decodes[text].code
             IN  /\ Fields(Routes'[code]) = Fields(Routes[code])
                 /\ Routes[code].times_seen \subseteq Routes'[code].times_seen
                 /\ DOMAIN Routes' = DOMAIN Routes
                 /\ \A c \in DOMAIN Routes \ {code} : Routes'[c] = Routes[c]]_vars

\* the route seen at two dates, occupied and not defended, and its summary sent
C4_Witness ==
    /\ update_id = 2
    /\ <<"AB12">> \in DOMAIN Routes
    /\ Routes[<<"AB12">>].times_seen = {str(DateOf(0)), str(DateOf(9))}
    /\ Routes[<<"AB12">>].occupied = <<Captured>>
    /\ Routes[<<"AB12">>].defended = None
    /\ reply = [kind |-> "route", name |-> <<Chars("Old Mill")>>, count |-> 2]

\* C5: every stored route has count = |times_seen|, and the count of the last route
\* summary sent is the cardinality of the times_seen of the route it names.
C5_CountIsCardinality ==
    /\ \A code \in DOMAIN Routes :
          Routes[code].count = Cardinality(Routes[code].times_seen)
    /\ reply.kind = "route"
          => \E code \in DOMAIN Routes :
                /\ reply.name = Routes[code].name
                /\ reply.count = Cardinality(Routes[code].times_seen)

\* a route whose fields were retained from one message while three were merged
C5_Witness ==
    /\ <<"AB12">> \in DOMAIN Routes
    /\ Routes[<<"AB12">>].count = 2
    /\ Cardinality(Routes[<<"AB12">>].times_seen) = 2
    /\ update_id = 3
    /\ DOMAIN Routes = {<<"AB12">>}
    /\ reply = [kind |-> "route", name |-> <<Chars("Old Mill")>>, count |-> 2]

\* C7: in a private chat a text with both an identity match and the route phrase is
\* handled as an identity message: the identity of the user is recorded, the reply
\* greets the user and bot_data (the route table) is unchanged.
C7_IdentityBeforeRoute ==
    [][\A text \in AllTexts, user \in Users, date \in ForwardDates :
          (/\ guild_search(text)
           /\ Has(text, "phrase")
           /\ forwarded(user, "private", text, date))
          => /\ "name" \in DOMAIN user_data'[user]
             /\ user_data'[user]["name"] = guild(text)
             /\ reply' = [kind |-> "hello", user |-> guild(text)]
             /\ bot_data' = bot_data]_vars

\* the identity of the text that also holds a route report is recorded, no route is
C7_Witness ==
    /\ update_id = 1
    /\ "name" \in DOMAIN user_data["u1"]
    /\ user_data["u1"]["name"] = guild(IdentityRouteText)
    /\ alliance_search(IdentityRouteText)
    /\ bot_data = EmptyDict
    /\ reply.kind = "hello"

\* C10: a message with the route phrase that the route pattern does not match ends
\* in the failure reply and leaves the route table, the user data and the prompts
\* as they were.
C10_MalformedRouteAtomic ==
    [][\A text \in AllTexts \ DOMAIN Decodes, chat_type \in ChatTypes :
          Branch(text, chat_type, bot_data) = "store_route"
          => \A user \in Users, date \in ForwardDates :
                forwarded(user, chat_type, text, date)
                => /\ reply' = ErrorReply
                   /\ bot_data' = bot_data
                   /\ user_data' = user_data
                   /\ prompts' = prompts]_vars

\* the failure reply, with the route merged before still in the table
C10_Witness ==
    /\ reply = ErrorReply
    /\ update_id = 2
    /\ DOMAIN Routes = {<<"AB12">>}
    /\ Routes[<<"AB12">>].count = 1

\* the flavor records of a user, and the record of one flavor text
Flavors(data, user) == Get(data[user], "flavors", EmptyDict)

Record(data, user, flavor_text) == Get(Flavors(data, user), flavor_text, <<EmptyDict, {}>>)

CountFor(count, tag) == Get(count, tag, 0)

Tags == {data[1] : data \in ButtonData}

RECURSIVE Sum(_, _)
Sum(count, tags) ==
    IF tags = {} THEN 0
    ELSE LET tag == CHOOSE x \in tags : TRUE
         IN  count[tag] + Sum(count, tags \ {tag})

\* all the counts of a counter together
Total(count) == Sum(count, DOMAIN count)

\* the step handles a press of a button of a prompt that replies to a message
SourcedPress(prompt, query_data) ==
    /\ prompt.reply_to_message # None
    /\ button(prompt, query_data)

\* C2: a press for a quest message of flavor text f and forward date t adds exactly 1
\* to the count of the pressed tag of f, and nothing to the other tags, when t is
\* not among the dates observed of f, and records t; it changes nothing of the
\* record when t is among them.  In every state reached the counts of a record
\* together are at most the number of its dates.
C2_FlavorMergeIdempotent ==
    [][/\ \A prompt \in prompts, query_data \in ButtonData :
             SourcedPress(prompt, query_data)
             => LET message == prompt.reply_to_message[1]
                    f   == quest(message.text).flavor_text
                    t   == str(message.forward_date)
                    old == Record(user_data, prompt.user, f)
                    new == Record(user_data', prompt.user, f)
                IN  IF t \in old[2]
                    THEN new = old
                    ELSE /\ new[2] = old[2] \cup {t}
                         /\ \A tag \in Tags :
                               CountFor(new[1], tag) =
                                   CountFor(old[1], tag) + (IF tag = query_data[1] THEN 1 ELSE 0)
       /\ \A user \in Users : \A f \in DOMAIN Flavors(user_data', user) :
             Total(Record(user_data', user, f)[1])
                 <= Cardinality(Record(user_data', user, f)[2])]_vars

\* one date counted for the flavor text, on the tree button, and the edit that
\* answered a later press of the mushroom button for that date: the counter it
\* shows holds the tree press alone
C2_Witness ==
    /\ update_id = 3
    /\ Cardinality(prompts) = 1
    /\ Record(user_data, "u1", <<Chars("forest clearing")>>) =
           <<[tag \in {"tree"} |-> 1], {str(DateOf(9))}>>
    /\ reply.kind = "edit"
    /\ reply.data = <<"mushroom">>
    /\ reply.count = [tag \in {"tree"} |-> 1]

\* C6: a press bound to a quest event that is already counted, whatever the prompt
\* and the tag pressed, leaves the user data and bot_data unchanged and shows the
\* counter as it was; the press handled first for an event records its date and
\* raises the total of the record by exactly 1, on its own tag.
C6_PressesCountOnce ==
    [][\A prompt \in prompts, query_data \in ButtonData :
          SourcedPress(prompt, query_data)
          => LET message == prompt.reply_to_message[1]
                 f   == quest(message.text).flavor_text
                 t   == str(message.forward_date)
                 old == Record(user_data, prompt.user, f)
                 new == Record(user_data', prompt.user, f)
             IN  /\ bot_data' = bot_data
                 /\ t \in new[2]
                 /\ reply'.count = new[1]
                 /\ IF t \in old[2]
                    THEN user_data' = user_data
                    ELSE /\ Total(new[1]) = Total(old[1]) + 1
                         /\ CountFor(new[1], query_data[1]) =
                                CountFor(old[1], query_data[1]) + 1]_vars

\* two prompts bound to one quest event (one flavor text, one date), and a press of
\* the mushroom button answered with a counter that holds the tree press alone
C6_Witness ==
    /\ \E p1, p2 \in prompts :
          /\ p1 # p2
          /\ p1.reply_to_message # None /\ p2.reply_to_message # None
          /\ p1.user = "u1" /\ p2.user = "u1"
          /\ p1.reply_to_message[1].forward_date = p2.reply_to_message[1].forward_date
          /\ quest(p1.reply_to_message[1].text).flavor_text =
                 quest(p2.reply_to_message[1].text).flavor_text
          /\ Record(user_data, "u1", quest(p1.reply_to_message[1].text).flavor_text) =
                 <<[tag \in {"tree"} |-> 1], {str(p1.reply_to_message[1].forward_date)}>>
    /\ Cardinality(prompts) = 2
    /\ reply.kind = "edit"
    /\ reply.data = <<"mushroom">>
    /\ reply.count = [tag \in {"tree"} |-> 1]

\* C8: in a private chat a text without the 'You received:' marker, the pathfinder
\* phrase, an identity match and the route phrase, whose stripped text is a flavor
\* text recorded for the user, is answered with the location prompt.
C8_KnownFlavorIsQuest ==
    [][\A user \in Users, text \in AllTexts, date \in ForwardDates :
          (/\ forwarded(user, "private", text, date)
           /\ ~Has(text, "received")
           /\ ~Has(text, "pathfinder")
           /\ ~guild_search(text)
           /\ ~Has(text, "phrase")
           /\ quest(text).flavor_text \in DOMAIN Flavors(user_data, user))
          => /\ reply'.kind = "prompt"
             /\ [user |-> user,
                 reply_to_message |-> <<[text |-> text, forward_date |-> date]>>] \in prompts']_vars

\* C9 as stated: a forwarded message in a group chat leaves the user data and the
\* prompts unchanged and is answered with no prompt and no 'unknown'; when the text
\* does not match the route pattern nothing is sent and nothing changes.
C9_GroupNoRouteNoAction ==
    [][\A text \in GroupTexts, date \in ForwardDates :
          (\E user \in Users : forwarded(user, "group", text, date))
          => /\ user_data' = user_data
             /\ prompts' = prompts
             /\ reply'.kind \notin {"prompt", "unknown"}
             /\ ~alliance_search(text) => (reply' = NoReply /\ bot_data' = bot_data)]_vars

\* C9 amended: a forwarded message in a group chat leaves the user data and the
\* prompts unchanged and is answered with no prompt and no 'unknown'; when the text
\* does not hold the route phrase nothing is sent and nothing changes.
C9_GroupLeavesUserState ==
    [][\A text \in GroupTexts, date \in ForwardDates :
          (\E user \in Users : forwarded(user, "group", text, date))
          => /\ user_data' = user_data
             /\ prompts' = prompts
             /\ reply'.kind \notin {"prompt", "unknown"}
             /\ ~Has(text, "phrase") => (reply' = NoReply /\ bot_data' = bot_data)]_vars

\* nothing was sent for the third update, a message in a group chat, and the flavor
\* record and the prompt the first two updates left are there
C9_Witness ==
    /\ update_id = 3
    /\ reply = NoReply
    /\ Flavors(user_data, "u1") # EmptyDict
    /\ prompts # {}

\* C11: a press of a button of a prompt that no longer replies to a message leaves
\* the user data, the route table and the prompts unchanged, edits no message and
\* does not end in the failure reply of the error handler.
C11_SourcelessPressIgnored ==
    [][\A prompt \in prompts, query_data \in ButtonData :
          (prompt.reply_to_message = None /\ button(prompt, query_data))
          => /\ user_data' = user_data
             /\ bot_data' = bot_data
             /\ prompts' = prompts
             /\ reply'.kind \notin {"edit", "error"}]_vars

\* the step is forwarded on the message a prompt replies to, taking the branch of
\* ask_location (which leaves its prompt among the prompts)
Asked(prompt) ==
    /\ prompt.reply_to_message # None
    /\ Branch(prompt.reply_to_message[1].text, "private", bot_data) = "ask_location"
    /\ forwarded(prompt.user, "private", prompt.reply_to_message[1].text,
                 prompt.reply_to_message[1].forward_date)

\* C12: the step that recognises a quest message and sends the location prompt
\* leaves the user data (the flavor records of every user with it) and bot_data
\* (the route table with it) unchanged; and a step that changes a flavor record
\* of a user is the press of a button of a prompt that replies to a message.
C12_PromptAloneNoEffect ==
    [][/\ \A prompt \in prompts' :
             Asked(prompt)
             => /\ reply'.kind = "prompt"
                /\ user_data' = user_data
                /\ bot_data' = bot_data
       /\ (\E user \in Users : Flavors(user_data', user) # Flavors(user_data, user))
             => \E prompt \in prompts, query_data \in ButtonData :
                   SourcedPress(prompt, query_data)]_vars

\* the prompt sent for a quest message of a flavor text that has a record: the
\* record holds the date of the resolved prompt alone and the new prompt, not
\* pressed, has left nothing in it
C12_Witness ==
    /\ update_id = 3
    /\ reply.kind = "prompt"
    /\ reply.stats = <<[tag \in {"tree"} |-> 1]>>
    /\ Record(user_data, "u1", <<Chars("forest clearing")>>) =
           <<[tag \in {"tree"} |-> 1], {str(DateOf(0))}>>
    /\ [user |-> "u1",
        reply_to_message |-> <<[text |-> QuestText1, forward_date |-> DateOf(9)]>>]
           \in prompts

\* C13: in every step a secret code of the route table stays in it, with every
\* time seen of it still there and a count that is not lower.
C13_RoutesAppendOnly ==
    [][\A code \in DOMAIN Routes :
          /\ code \in DOMAIN Routes'
          /\ Routes[code].times_seen \subseteq Routes'[code].times_seen
          /\ Routes[code].count <= Routes'[code].count]_vars

\* two codes in the table after four updates, the last one a press
C13_Witness ==
    /\ update_id = 4
    /\ DOMAIN Routes = {<<"AB12">>, <<"CD34">>}
    /\ Routes[<<"AB12">>].count = 1
    /\ Routes[<<"CD34">>].count = 1
    /\ reply.kind = "edit"

\* the 24 labels of the glossary, from hour 0
Glossary ==
    <<"morning", "day", "day", "evening", "evening", "night", "night", "morning",
      "morning", "day", "day", "evening", "evening", "night", "night", "morning",
      "morning", "day", "day", "evening", "evening", "night", "night", "morning">>

\* C14: the game time a reply names for a forward date of hour h (0..23) is one of
\* the four labels and is the entry h of the glossary sequence counted from 0;
\* it is morning for hour 0 and for hour 23 and day for hour 9.
C14_TimeTable ==
    reply.kind = "unknown"
    => /\ reply.exact_time.hour \in 0..23
       /\ reply.time \in {"morning", "day", "evening", "night"}
       /\ reply.time = Glossary[reply.exact_time.hour + 1]
       /\ reply.exact_time.hour \in {0, 23} => reply.time = "morning"
       /\ reply.exact_time.hour = 9 => reply.time = "day"

\* the reply for a message forwarded at hour 23
C14_Witness ==
    /\ reply.kind = "unknown"
    /\ reply.exact_time.hour = 23
    /\ reply.time = "morning"

\* the text is no quest message for the user: it holds neither marker and is no
\* flavor text known, in bot_data or in the records of the user
NoQuest(user, text) ==
    /\ ~Has(text, "received")
    /\ ~Has(text, "pathfinder")
    /\ text \notin DOMAIN Get(bot_data, "flavors", EmptyDict)
    /\ quest(text).flavor_text \notin DOMAIN Flavors(user_data, user)

\* the reply names the text unknown, and the route table, the flavor records of
\* every user and the prompts are as they were
UnknownOnly ==
    /\ reply'.kind = "unknown"
    /\ bot_data' = bot_data
    /\ \A u \in Users : Flavors(user_data', u) = Flavors(user_data, u)
    /\ prompts' = prompts

\* C15 as stated: in a private chat a text that the identity pattern and the route
\* pattern do not match and that is no quest message is answered with the one
\* reply 'unknown' and leaves the route table and the flavor records unchanged.
C15_NoTemplateIsUnknown ==
    [][\A text \in GroupTexts, user \in Users, date \in ForwardDates :
          (/\ ~guild_search(text)
           /\ ~alliance_search(text)
           /\ NoQuest(user, text)
           /\ forwarded(user, "private", text, date))
          => UnknownOnly]_vars

\* C15 amended: in a private chat a text that the identity pattern does not match,
\* that does not hold the route phrase and that is no quest message is answered
\* with the one reply 'unknown' and leaves the route table and the flavor records
\* unchanged.
C15_NoPhraseIsUnknown ==
    [][\A text \in GroupTexts, user \in Users, date \in ForwardDates :
          (/\ ~guild_search(text)
           /\ ~Has(text, "phrase")
           /\ NoQuest(user, text)
           /\ forwarded(user, "private", text, date))
          => UnknownOnly]_vars

\* the fourth update answered 'unknown', with a route and a flavor record stored
C15_Witness ==
    /\ update_id = 4
    /\ reply.kind = "unknown"
    /\ Routes # EmptyDict
    /\ Flavors(user_data, "u1") # EmptyDict
    /\ Get(user_data["u1"], "text_info", None) = "unknown"

\* the route of the code of a after the observation a at date ta and then the
\* observation b at date tb have been merged into the route table
MergedInOrder(a, ta, b, tb) ==
    StoredRoutes(StoredRoutes(Routes, a, ta), b, tb)[a.code]

\* C16: from the route table of any state reached, two observations of one secret
\* code at two different forward dates give the same route (name, occupied,
\* defended, times_seen and count) merged in either order.
C16_MergeOrderIndependent ==
    \A a \in DOMAIN Decodes, b \in DOMAIN Decodes, ta \in ForwardDates, tb \in ForwardDates :
        (Decodes[a].code = Decodes[b].code /\ ta # tb)
        => MergedInOrder(Decodes[a], ta, Decodes[b], tb) =
               MergedInOrder(Decodes[b], tb, Decodes[a], ta)

\* a route stored as occupied and seen at the middle date, with two observations
\* of its code that differ from it and from each other, one earlier and one later
C16_Witness ==
    /\ <<"AB12">> \in DOMAIN Routes
    /\ Routes[<<"AB12">>].times_seen = {str(DateOf(9))}
    /\ Fields(Routes[<<"AB12">>]) = Fields(Decodes[RouteText1])
    /\ Fields(Decodes[RouteText2]) # Fields(Decodes[RouteText1])
    /\ Fields(MergedInOrder(Decodes[RouteText1], DateOf(0), Decodes[RouteText2], DateOf(18)))
           = Fields(Decodes[RouteText2])
    /\ Fields(MergedInOrder(Decodes[RouteText2], DateOf(0), Decodes[RouteText1], DateOf(18)))
           = Fields(Decodes[RouteText1])

\* C17: in every state reached, for every user and every flavor text recorded for
\* the user, the counts of the location tags of the record together are the number
\* of the dates observed of the record.
C17_CountsSumToDates ==
    \A user \in Users : \A f \in DOMAIN Flavors(user_data, user) :
        Total(Record(user_data, user, f)[1]) = Cardinality(Record(user_data, user, f)[2])

\* a record of two dates, one counted on the tree and one on the mushroom
C17_Witness ==
    /\ Record(user_data, "u1", <<Chars("forest clearing")>>) =
           <<[tag \in {"tree", "mushroom"} |-> 1], {str(DateOf(0)), str(DateOf(9))}>>
    /\ reply.kind = "edit"

\* the flavor records of the user are as they were, but for the one of flavor text f
SameButFor(user, f) ==
    /\ DOMAIN Flavors(user_data', user) \ {f} = DOMAIN Flavors(user_data, user) \ {f}
    /\ \A g \in DOMAIN Flavors(user_data, user) \ {f} :
          Flavors(user_data', user)[g] = Flavors(user_data, user)[g]

\* C18: the press of a button of a prompt of user u that replies to a message of
\* flavor text f leaves bot_data (the routes), the data of every other user and the
\* records of u of every other flavor text unchanged; a route merge of a message of
\* code c leaves the user data (the flavor records) unchanged, every other code of
\* the table with its route, and adds no code but c.
C18_AggregatesIsolated ==
    [][/\ \A prompt \in prompts, query_data \in ButtonData :
             SourcedPress(prompt, query_data)
             => /\ bot_data' = bot_data
                /\ \A u \in Users \ {prompt.user} : user_data'[u] = user_data[u]
                /\ SameButFor(prompt.user, quest(prompt.reply_to_message[1].text).flavor_text)
       /\ \A text \in DOMAIN Decodes, date \in ForwardDates :
             RouteMerge(text, date)
             => /\ user_data' = user_data
                /\ DOMAIN Routes' \ {Decodes[text].code} = DOMAIN Routes \ {Decodes[text].code}
                /\ \A c \in DOMAIN Routes \ {Decodes[text].code} : Routes'[c] = Routes[c]]_vars

\* both users have a record and the table a route, and the last of the four
\* updates, a press of u1, has recorded the later date on the mushroom
C18_Witness ==
    /\ update_id = 4
    /\ Flavors(user_data, "u2") # EmptyDict
    /\ Record(user_data, "u1", <<Chars("forest clearing")>>) =
           <<[tag \in {"mushroom"} |-> 1], {str(DateOf(9))}>>
    /\ Record(user_data, "u2", <<Chars("forest clearing")>>) =
           <<[tag \in {"tree"} |-> 1], {str(DateOf(0))}>>
    /\ reply.kind = "edit"
    /\ reply.data = <<"mushroom">>
    /\ reply.time = game_time(DateOf(9))

\* the texts that the identity pattern matches
Identities == {text \in AllTexts : guild_search(text)}

\* C19: a step that merges a forwarded message the route pattern matches is
\* answered with the summary of the stored route and leaves the user data and the
\* prompts as they were, and it is the step taken for the message in a chat of
\* either type, but for the private chat when the identity pattern matches the
\* text too: the same route table and the same reply in both.
C19_RouteMergeAnyChat ==
    [][\A text \in DOMAIN Decodes, date \in ForwardDates :
          RouteMerge(text, date)
          => /\ reply' = RouteReply(Routes'[Decodes[text].code])
             /\ UNCHANGED <<user_data, prompts>>
             /\ \A chat_type \in ChatTypes :
                   ~(text \in Identities /\ chat_type = "private")
                   => \E user \in Users : forwarded(user, chat_type, text, date)]_vars

\* the first update, a message with an identity line and a route, merged: the
\* chat was not private, no name is stored
C19_Witness ==
    /\ update_id = 1
    /\ reply.kind = "route"
    /\ DOMAIN Routes = {<<"AB12">>}
    /\ \A user \in Users : "name" \notin DOMAIN user_data[user]

====
